---------------------------- MODULE Spec2Model ----------------------------
(***************************************************************************)
(* Model of tools/apply_palette.py: the palette applier of the Honeypunk   *)
(* theme.  A Python string is a sequence of one-character strings, so that *)
(* strip(), upper(), lower(), slicing and the regular expressions are      *)
(* computed character by character, as the code computes them.             *)
(***************************************************************************)
EXTENDS Integers, Sequences, FiniteSets, TLC

VARIABLES
    theme,       \* Honeypunk.yaml on disk: doc["Sections"], a sequence of sections
    mappings,    \* mappings.yaml as loaded: <<[role, keys]>> in dict (insertion) order
    roles,       \* roles.yaml as loaded: role -> [foreground, background]
    name_to_hex, \* the palette rows as parsed: name -> hex
    last,        \* the most recent run of main: its arguments and its results
    prev,        \* the run of main before that one
    value,       \* normalize_color's argument
    results,     \* normalize_color's successive return values on value
    overlaps,    \* detect_overlaps' return value, once it has returned
    role_maps    \* build_role_color_maps' (fg_map, bg_map), once it has returned

vars == <<theme, mappings, roles, name_to_hex, last, prev,
          value, results, overlaps, role_maps>>

-----------------------------------------------------------------------------
(* Bounds of the model. *)

MaxEntries == 1

MaxPasses == 2

MaxLen == 5

MaxKeys == 2

-----------------------------------------------------------------------------
(* Python values that are not strings, lists or dicts. *)

None == <<"<None>">>

-----------------------------------------------------------------------------
(* Characters and the str methods the script uses. *)

LowerLetters == <<"a", "b", "c", "d", "e", "f", "g", "i", "r", "t", "u", "x">>

UpperLetters == <<"A", "B", "C", "D", "E", "F", "G", "I", "R", "T", "U", "X">>

Digits == {"0", "1", "2", "3", "4", "5", "6", "7", "8", "9"}

HexDigits == Digits \cup {"a", "b", "c", "d", "e", "f"} \cup {"A", "B", "C", "D", "E", "F"}

Whitespace == {" ", "\n"}

Letters == {LowerLetters[i] : i \in DOMAIN LowerLetters} \cup {UpperLetters[i] : i \in DOMAIN UpperLetters}

\* str.upper() and str.lower(), one character at a time.
UpperOf == [c \in Letters |->
              IF \E i \in DOMAIN LowerLetters : LowerLetters[i] = c
              THEN UpperLetters[CHOOSE i \in DOMAIN LowerLetters : LowerLetters[i] = c]
              ELSE c]

LowerOf == [c \in Letters |->
              IF \E i \in DOMAIN UpperLetters : UpperLetters[i] = c
              THEN LowerLetters[CHOOSE i \in DOMAIN UpperLetters : UpperLetters[i] = c]
              ELSE c]

UpperChar(c) == IF c \in Letters THEN UpperOf[c] ELSE c

LowerChar(c) == IF c \in Letters THEN LowerOf[c] ELSE c

upper(s) == [i \in DOMAIN s |-> UpperChar(s[i])]

lower(s) == [i \in DOMAIN s |-> LowerChar(s[i])]

RECURSIVE lstrip(_, _)
lstrip(s, chars) ==
    IF s # <<>> /\ Head(s) \in chars THEN lstrip(Tail(s), chars) ELSE s

RECURSIVE rstrip(_, _)
rstrip(s, chars) ==
    IF s # <<>> /\ s[Len(s)] \in chars
    THEN rstrip(SubSeq(s, 1, Len(s) - 1), chars)
    ELSE s

strip(s, chars) == rstrip(lstrip(s, chars), chars)

startswith(s, p) == Len(s) >= Len(p) /\ SubSeq(s, 1, Len(p)) = p

endswith(s, p) == Len(s) >= Len(p) /\ SubSeq(s, Len(s) - Len(p) + 1, Len(s)) = p

IsStr(v) == v # None

-----------------------------------------------------------------------------
(* normalize_color *)

\* Unprefixed without the "elif val.startswith('#')" branch.
Unprefixed_keeps_hash(val) ==
    IF startswith(val, <<"\"", "#">>)
    THEN IF endswith(val, <<"\"">>)
         THEN SubSeq(val, 3, Len(val) - 1)
         ELSE SubSeq(val, 3, Len(val))
    ELSE val

\* Lines 62-65: val once the quote-hash and closing quote, or the hash, is
\* removed.
Unprefixed(val) ==
    IF startswith(val, <<"\"", "#">>)
    THEN IF endswith(val, <<"\"">>)
         THEN SubSeq(val, 3, Len(val) - 1)
         ELSE SubSeq(val, 3, Len(val))
    ELSE IF startswith(val, <<"#">>)
         THEN SubSeq(val, 2, Len(val))
         ELSE val

\* Line 66: return f"#{val}" if val else value
Prefixed(val, v) == IF val # <<>> THEN <<"#">> \o val ELSE v

normalize_color(v) == Prefixed(Unprefixed(upper(strip(v, Whitespace))), v)

-----------------------------------------------------------------------------
(* The theme document.  A section is a dict of entries or something else;  *)
(* an entry's value is a list of slots or a scalar; a slot is a string or  *)
(* a value that is not a string.                                           *)

Section(entries) == [isdict |-> TRUE, entries |-> entries]

NotADict == [isdict |-> FALSE, entries |-> <<>>]

ListEntry(key, items) == [key |-> key, islist |-> TRUE, items |-> items]

ScalarEntry(key) == [key |-> key, islist |-> FALSE, items |-> <<>>]

GUID == <<"G", "U", "I", "D">>

AllHex(s, from, to) == \A i \in from..to : s[i] \in HexDigits

\* re.match(r"[0-9a-fA-F]{2}x[0-9a-fA-F]{8}", val): anchored at the start only.
FlagMatch(val) ==
    /\ Len(val) >= 11
    /\ AllHex(val, 1, 2)
    /\ val[3] = "x"
    /\ AllHex(val, 4, 11)

\* re.match(r"^[0-9A-Fa-f]{2}x[0-9A-Fa-f]{8}$", current_bg): "$" also matches
\* before one trailing newline.
FlagMatchAnchored(val) ==
    /\ FlagMatch(val)
    /\ \/ Len(val) = 11
       \/ Len(val) = 12 /\ val[12] = "\n"

\* re.fullmatch(r"#[0-9A-Fa-f]{6}(?:[0-9A-Fa-f]{2})?", normalized)
HexFullmatch(s) ==
    /\ Len(s) \in {7, 9}
    /\ s[1] = "#"
    /\ AllHex(s, 2, Len(s))

-----------------------------------------------------------------------------
(* update_yaml_colors: normalize mode.  Each step returns what it leaves   *)
(* in the document and what it adds to replacements.                       *)

\* Lines 110-115 without the comparison of line 113.
Replaced_always(val, normalized) ==
    IF HexFullmatch(normalized)
    THEN [val |-> normalized, n |-> 1]
    ELSE [val |-> val, n |-> 0]

\* Lines 110-115: the slot is overwritten with normalized and counted.
Replaced(val, normalized) ==
    IF /\ HexFullmatch(normalized)
       /\ normalized # upper(strip(val, {"\""}))
    THEN [val |-> normalized, n |-> 1]
    ELSE [val |-> val, n |-> 0]

\* One slot of a pair (the body of "for idx in (0, 1)").
NormalizeSlot(val) ==
    IF ~IsStr(val) THEN [val |-> val, n |-> 0]
    ELSE IF FlagMatch(val) THEN [val |-> val, n |-> 0]
    ELSE Replaced(val, normalize_color(val))

\* The pair e once its slots are s0 and s1.
NormalizedPair(e, s0, s1) ==
    [entry |-> [e EXCEPT !.items = <<s0.val, s1.val>>], n |-> s0.n + s1.n]

\* One key of a section (the body of "for key, values in section.items()").
NormalizeEntry(e) ==
    IF e.key = GUID THEN [entry |-> e, n |-> 0]
    ELSE IF ~e.islist \/ Len(e.items) # 2 THEN [entry |-> e, n |-> 0]
    ELSE NormalizedPair(e, NormalizeSlot(e.items[1]), NormalizeSlot(e.items[2]))

\* The first key's outcome h before the outcome t of the keys after it.
NormalizedEntries(h, t) ==
    [entries |-> <<h.entry>> \o t.entries, n |-> h.n + t.n]

\* The inner loop over one section's keys.
RECURSIVE NormalizeSection(_)
NormalizeSection(entries) ==
    IF entries = <<>> THEN [entries |-> <<>>, n |-> 0]
    ELSE NormalizedEntries(NormalizeEntry(Head(entries)),
                           NormalizeSection(Tail(entries)))

\* The first section, with the outcome h of its keys if it is a dict, before
\* the outcome t of the sections after it.
NormalizedSections(section, h, t) ==
    IF ~section.isdict
    THEN [doc |-> <<section>> \o t.doc, replacements |-> t.replacements]
    ELSE [doc |-> <<Section(h.entries)>> \o t.doc,
          replacements |-> h.n + t.replacements]

\* The outer loop over doc["Sections"]; the caller writes doc back.
RECURSIVE update_yaml_colors(_)
update_yaml_colors(doc) ==
    IF doc = <<>> THEN [doc |-> <<>>, replacements |-> 0]
    ELSE NormalizedSections(Head(doc),
                            NormalizeSection(Head(doc).entries),
                            update_yaml_colors(Tail(doc)))

-----------------------------------------------------------------------------
(* Python dicts as functions; d.get(k) and truthiness ("if x:"). *)

Get(d, k) == IF k \in DOMAIN d THEN d[k] ELSE None

Truthy(v) == v # None /\ v # <<>>

-----------------------------------------------------------------------------
(* build_role_color_maps *)

\* "if hx_fg:" and "if hx_bg:".
Found(hx) == IF Truthy(hx) THEN hx ELSE None

\* The hex a role's palette name resolves to, None when the role has no
\* name ("if fg_name:") or the palette has no such name.
ResolveName(name, palette_name_to_hex) ==
    IF Truthy(name) THEN Found(Get(palette_name_to_hex, name)) ELSE None

\* The roles a map holds, and the map.
Resolving(rls, palette_name_to_hex, slot) ==
    {r \in DOMAIN rls : ResolveName(rls[r][slot], palette_name_to_hex) # None}

ColorMap(rls, palette_name_to_hex, slot, held) ==
    [r \in held |-> ResolveName(rls[r][slot], palette_name_to_hex)]

\* build_role_color_maps with the background lookup nested under the
\* foreground's "if hx_fg:".
build_role_color_maps_nested(rls, palette_name_to_hex) ==
    [fg |-> ColorMap(rls, palette_name_to_hex, "foreground",
                     Resolving(rls, palette_name_to_hex, "foreground")),
     bg |-> ColorMap(rls, palette_name_to_hex, "background",
                     Resolving(rls, palette_name_to_hex, "foreground")
                     \cap Resolving(rls, palette_name_to_hex, "background"))]

build_role_color_maps(rls, palette_name_to_hex) ==
    [fg |-> ColorMap(rls, palette_name_to_hex, "foreground",
                     Resolving(rls, palette_name_to_hex, "foreground")),
     bg |-> ColorMap(rls, palette_name_to_hex, "background",
                     Resolving(rls, palette_name_to_hex, "background"))]

-----------------------------------------------------------------------------
(* detect_overlaps *)

\* The roles of one role's keys that lower to lk: one per listing (line 182).
RECURSIVE Listings(_, _, _)
Listings(role, keys, lk) ==
    IF keys = <<>> THEN <<>>
    ELSE (IF lower(Head(keys)) = lk THEN <<role>> ELSE <<>>)
         \o Listings(role, Tail(keys), lk)

\* index[lk] once both loops are done.
RECURSIVE OverlapIndex(_, _)
OverlapIndex(m, lk) ==
    IF m = <<>> THEN <<>>
    ELSE Listings(Head(m).role, Head(m).keys, lk) \o OverlapIndex(Tail(m), lk)

\* The keys of index.
IndexKeys(m) ==
    UNION { {lower(m[i].keys[j]) : j \in DOMAIN m[i].keys} : i \in DOMAIN m }

detect_overlaps(m) ==
    [k \in {lk \in IndexKeys(m) : Len(OverlapIndex(m, lk)) > 1} |-> OverlapIndex(m, k)]

-----------------------------------------------------------------------------
(* apply_semantic: semantic mode.  Each step returns what it leaves in the *)
(* document and what it adds to changed and to planned.                    *)

\* role_to_keys_ci[role]: the lowercased keys of one role.
KeysCi(keys) == {lower(keys[i]) : i \in DOMAIN keys}

\* The positions in the mappings of the roles whose keys hold key_ci.
Matching(m, key_ci) == {i \in DOMAIN m : key_ci \in KeysCi(m[i].keys)}

First(S) == IF S = {} THEN 0 ELSE CHOOSE i \in S : \A j \in S : i <= j

\* FirstRole keeping the last matching role instead of the first.
FirstRole_last(m, key_ci) ==
    IF Matching(m, key_ci) = {} THEN 0
    ELSE CHOOSE i \in Matching(m, key_ci) : \A j \in Matching(m, key_ci) : i >= j

\* The position in the mappings of the role the scan breaks on, 0 if none.
FirstRole(m, key_ci) == First(Matching(m, key_ci))

\* ForegroundUpdate comparing current_fg with target_fg without upper().
ForegroundUpdate_exact(current_fg, target_fg, dry_run) ==
    IF /\ Truthy(target_fg)
       /\ IsStr(current_fg)
       /\ current_fg # target_fg
    THEN IF dry_run
         THEN [val |-> current_fg, changed |-> 0, planned |-> 1]
         ELSE [val |-> target_fg, changed |-> 1, planned |-> 1]
    ELSE [val |-> current_fg, changed |-> 0, planned |-> 0]

\* The foreground block: pair[1] afterwards.
ForegroundUpdate(current_fg, target_fg, dry_run) ==
    IF /\ Truthy(target_fg)
       /\ IsStr(current_fg)
       /\ upper(current_fg) # upper(target_fg)
    THEN IF dry_run
         THEN [val |-> current_fg, changed |-> 0, planned |-> 1]
         ELSE [val |-> target_fg, changed |-> 1, planned |-> 1]
    ELSE [val |-> current_fg, changed |-> 0, planned |-> 0]

\* The background block: pair[0] afterwards.
BackgroundUpdate(current_bg, target_bg, dry_run) ==
    IF /\ Truthy(target_bg)
       /\ IsStr(current_bg)
       /\ ~FlagMatchAnchored(current_bg)
       /\ upper(current_bg) # upper(target_bg)
    THEN IF dry_run
         THEN [val |-> current_bg, changed |-> 0, planned |-> 1]
         ELSE [val |-> target_bg, changed |-> 1, planned |-> 1]
    ELSE [val |-> current_bg, changed |-> 0, planned |-> 0]

\* The pair e once its foreground is f and its background b.
UpdatedPair(e, f, b) ==
    [entry |-> [e EXCEPT !.items = <<b.val, f.val>>],
     changed |-> f.changed + b.changed,
     planned |-> f.planned + b.planned]

\* The scan of the roles for one pair: i is the role it breaks on.
ScanRoles(e, i, m, fgm, bgm, dry_run) ==
    IF i = 0 THEN [entry |-> e, changed |-> 0, planned |-> 0]
    ELSE UpdatedPair(e,
                     ForegroundUpdate(e.items[2], Get(fgm, m[i].role), dry_run),
                     BackgroundUpdate(e.items[1], Get(bgm, m[i].role), dry_run))

\* One key of a section (the body of "for key, pair in section.items()").
SemanticEntry(e, m, fgm, bgm, dry_run) ==
    IF e.key = GUID \/ ~e.islist \/ Len(e.items) # 2
    THEN [entry |-> e, changed |-> 0, planned |-> 0]
    ELSE ScanRoles(e, FirstRole(m, lower(e.key)), m, fgm, bgm, dry_run)

\* The first key's outcome h before the outcome t of the keys after it.
UpdatedEntries(h, t) ==
    [entries |-> <<h.entry>> \o t.entries,
     changed |-> h.changed + t.changed,
     planned |-> h.planned + t.planned]

\* The inner loop over one section's keys.
RECURSIVE SemanticSection(_, _, _, _, _)
SemanticSection(entries, m, fgm, bgm, dry_run) ==
    IF entries = <<>> THEN [entries |-> <<>>, changed |-> 0, planned |-> 0]
    ELSE UpdatedEntries(SemanticEntry(Head(entries), m, fgm, bgm, dry_run),
                        SemanticSection(Tail(entries), m, fgm, bgm, dry_run))

\* The first section, with the outcome h of its keys if it is a dict, before
\* the outcome t of the sections after it.
UpdatedSections(section, h, t) ==
    IF ~section.isdict
    THEN [doc |-> <<section>> \o t.doc,
          changed |-> t.changed, planned |-> t.planned]
    ELSE [doc |-> <<Section(h.entries)>> \o t.doc,
          changed |-> h.changed + t.changed,
          planned |-> h.planned + t.planned]

\* The outer loop over doc["Sections"]: doc afterwards, changed, len(planned).
RECURSIVE SemanticSections(_, _, _, _, _)
SemanticSections(doc, m, fgm, bgm, dry_run) ==
    IF doc = <<>> THEN [doc |-> <<>>, changed |-> 0, planned |-> 0]
    ELSE UpdatedSections(Head(doc),
                         SemanticSection(Head(doc).entries, m, fgm, bgm, dry_run),
                         SemanticSections(Tail(doc), m, fgm, bgm, dry_run))

\* Lines 240-274 after the loops have left r: the document in memory,
\* len(planned), whether the file is written, and the return value.
Finished(r, dry_run) ==
    [doc |-> r.doc,
     planned |-> r.planned,
     written |-> ~dry_run,
     returns |-> IF dry_run THEN 0 ELSE r.changed]

\* apply_semantic without its early return on dry_run: the changes are
\* applied and the file is written.
apply_semantic_no_return(doc, m, fgm, bgm, dry_run) ==
    [doc |-> SemanticSections(doc, m, fgm, bgm, FALSE).doc,
     planned |-> SemanticSections(doc, m, fgm, bgm, FALSE).planned,
     written |-> TRUE,
     returns |-> IF dry_run THEN 0 ELSE SemanticSections(doc, m, fgm, bgm, FALSE).changed]

apply_semantic(doc, m, fgm, bgm, dry_run) ==
    Finished(SemanticSections(doc, m, fgm, bgm, dry_run), dry_run)

-----------------------------------------------------------------------------
(* main *)

\* What main finds at one of its four paths.
FileStates == {"ok", "missing", "malformed"}

AllOk == [palette |-> "ok", theme |-> "ok", mappings |-> "ok", roles |-> "ok"]

\* load_semantic_files raises ValueError when a top level is not a dict.
LoadRaises(files) == files.mappings = "malformed" \/ files.roles = "malformed"

\* MissingFile without the "if not roles_path.exists()" of line 312.
MissingFile_no_roles(semantic, files) ==
    \/ files.palette = "missing"
    \/ files.theme = "missing"
    \/ /\ semantic
       /\ files.mappings = "missing"

\* The four "if not ....exists(): ... return 1" of main, in its order: the
\* palette, the theme, and under --semantic the mappings and the roles.
MissingFile(semantic, files) ==
    \/ files.palette = "missing"
    \/ files.theme = "missing"
    \/ /\ semantic
       /\ \/ files.mappings = "missing"
          \/ files.roles = "missing"

\* A run that ends before it opens the theme: "return 1", or the ValueError.
Stopped(status, doc) ==
    [status |-> status, rc |-> 1, disk |-> doc, memory |-> doc,
     count |-> 0, planned |-> 0]

\* Lines 321-322 and 327: the semantic branch once apply_semantic returned r.
SemanticRun(doc, r) ==
    [status |-> "returned", rc |-> 0,
     disk |-> IF r.written THEN r.doc ELSE doc,
     memory |-> r.doc,
     count |-> r.returns, planned |-> r.planned]

\* Lines 324-327: the normalize branch once update_yaml_colors returned r.
NormalizeRun(r) ==
    [status |-> "returned", rc |-> 0, disk |-> r.doc, memory |-> r.doc,
     count |-> r.replacements, planned |-> 0]

\* One invocation: how it ends, what is on disk afterwards, the document in
\* memory when it ends, the mode function's return value and len(planned).
main(semantic, dry_run, files, doc, m, rls, palette) ==
    IF MissingFile(semantic, files) THEN Stopped("returned", doc)
    ELSE IF semantic
    THEN IF LoadRaises(files) THEN Stopped("raised", doc)
         ELSE SemanticRun(doc,
                  apply_semantic(doc, m,
                                 build_role_color_maps(rls, palette).fg,
                                 build_role_color_maps(rls, palette).bg,
                                 dry_run))
    ELSE NormalizeRun(update_yaml_colors(doc))

\* How a run is remembered once the next one has started.
Mode(run) ==
    IF run.status = "none" THEN "none"
    ELSE IF run.status # "returned" \/ run.rc # 0 THEN "failed"
    ELSE IF ~run.semantic THEN "normalize"
    ELSE IF run.dry_run THEN "dry-run"
    ELSE "semantic"

NoRun ==
    [status |-> "none", rc |-> 0, semantic |-> FALSE, dry_run |-> FALSE,
     files |-> AllOk, count |-> 0, planned |-> 0, before |-> <<>>, memory |-> <<>>]

\* The run r of main is over: the file is as r left it, and r is the last run.
Ran(semantic, dry_run, files, r) ==
    /\ theme' = r.disk
    /\ last' = [status |-> r.status, rc |-> r.rc, semantic |-> semantic,
                dry_run |-> dry_run, files |-> files,
                count |-> r.count, planned |-> r.planned,
                before |-> theme, memory |-> r.memory]
    /\ prev' = [mode |-> Mode(last)]
    /\ UNCHANGED <<mappings, roles, name_to_hex, value, results,
                   overlaps, role_maps>>

Main(semantic, dry_run, files) ==
    Ran(semantic, dry_run, files,
        main(semantic, dry_run, files, theme, mappings, roles, name_to_hex))

-----------------------------------------------------------------------------
(* The other entry points, called on their own. *)

NotCalled == [done |-> FALSE]

Normalize ==
    /\ Len(results) < MaxPasses
    /\ results' = Append(results,
                     normalize_color(IF results = <<>> THEN value
                                     ELSE results[Len(results)]))
    /\ UNCHANGED <<theme, mappings, roles, name_to_hex, last, prev, value,
                   overlaps, role_maps>>

DetectOverlaps ==
    /\ ~overlaps.done
    /\ overlaps' = [done |-> TRUE, index |-> detect_overlaps(mappings)]
    /\ UNCHANGED <<theme, mappings, roles, name_to_hex, last, prev, value,
                   results, role_maps>>

BuildRoleColorMaps ==
    /\ ~role_maps.done
    /\ role_maps' = [done |-> TRUE,
                     fg |-> build_role_color_maps(roles, name_to_hex).fg,
                     bg |-> build_role_color_maps(roles, name_to_hex).bg]
    /\ UNCHANGED <<theme, mappings, roles, name_to_hex, last, prev, value,
                   results, overlaps>>

-----------------------------------------------------------------------------
(* Inputs. *)

CyanGlow == <<"#", "0", "0", "D", "1", "F", "F">>

VoidBlack == <<"#", "0", "A", "0", "A", "0", "A">>

Red == <<"#", "F", "F", "0", "0", "0", "0">>

Black == <<"#", "0", "0", "0", "0", "0", "0">>

CyanLower == <<"#", "0", "0", "d", "1", "f", "f">>

CyanBare == <<"0", "0", "d", "1", "f", "f">>

FlagCode == <<"0", "5", "x", "0", "0", "0", "0", "0", "0", "0", "0">>

NameCyan == <<"C", "y", "a", "n">>

NameVoid == <<"V", "o", "i", "d">>

NameRed == <<"R", "e", "d">>

NameNope == <<"N", "o", "p", "e">>

Palette == (NameCyan :> CyanGlow) @@ (NameVoid :> VoidBlack) @@ (NameRed :> Red)

NameEmpty == <<>>

SlotValues == {Black, CyanLower, CyanBare, FlagCode, None}

EntryValues ==
    {[islist |-> TRUE, items |-> <<b, f>>] : b \in SlotValues, f \in SlotValues}
    \cup {[islist |-> TRUE, items |-> <<Black>>], [islist |-> FALSE, items |-> <<>>]}

\* "T" is claimed through the mappings' "t" or "T", "B" through "B".
ThemeKeys == << <<"T">>, <<"B">> >>

RECURSIVE Sorted(_)
Sorted(S) ==
    IF S = {} THEN <<>>
    ELSE LET m == CHOOSE x \in S : \A y \in S : x <= y
         IN  <<m>> \o Sorted(S \ {m})

\* A theme: a section that is no dict, and one holding a GUID and the keys
\* K of ThemeKeys with the values v gives them.
Theme(K, v) ==
    LET order == Sorted(K)
    IN  << NotADict,
           Section(<<ScalarEntry(GUID)>> \o
                   [i \in DOMAIN order |->
                       [key |-> ThemeKeys[order[i]],
                        islist |-> v[order[i]].islist,
                        items |-> v[order[i]].items]]) >>

Themes ==
    UNION { {Theme(K, v) : v \in [K -> EntryValues]} :
            K \in {S \in SUBSET DOMAIN ThemeKeys : Cardinality(S) <= MaxEntries} }

RoleNames == {"accent", "error"}

RoleSpec(fg, bg) == [foreground |-> fg, background |-> bg]

\* mappings.yaml and roles.yaml together.  In each "T" is claimed by accent
\* first and by error after it; accent resolves both colours, only its
\* foreground, or only its background.
ConfigBoth ==
    [mappings |-> << [role |-> "accent", keys |-> << <<"t">> >>],
                     [role |-> "error", keys |-> << <<"T">>, <<"B">> >>] >>,
     roles |-> ("accent" :> RoleSpec(NameCyan, NameVoid))
               @@ ("error" :> RoleSpec(NameRed, NameNope))]

ConfigForeground ==
    [mappings |-> << [role |-> "accent", keys |-> << <<"T">> >>],
                     [role |-> "error", keys |-> << <<"t">> >>] >>,
     roles |-> ("accent" :> RoleSpec(NameCyan, None))
               @@ ("error" :> RoleSpec(NameRed, NameVoid))]

ConfigBackground ==
    [mappings |-> << [role |-> "accent", keys |-> << <<"T">> >>],
                     [role |-> "error", keys |-> << <<"t">>, <<"B">> >>] >>,
     roles |-> ("accent" :> RoleSpec(NameNope, NameVoid))
               @@ ("error" :> RoleSpec(NameRed, NameRed))]

Configs == {ConfigBoth, ConfigForeground, ConfigBackground}

NoPrev == [mode |-> "none"]

Init ==
    /\ theme \in Themes
    /\ \E c \in Configs : mappings = c.mappings /\ roles = c.roles
    /\ name_to_hex = Palette
    /\ last = NoRun
    /\ prev = NoPrev
    /\ value = <<>>
    /\ results = <<>>
    /\ overlaps = NotCalled
    /\ role_maps = NotCalled

\* Every run finds its four files.
Next ==
    \E semantic \in BOOLEAN, dry_run \in BOOLEAN :
        Main(semantic, dry_run, AllOk)

Spec == Init /\ [][Next]_vars

-----------------------------------------------------------------------------
(* Runs that may miss a file or find mappings.yaml or roles.yaml malformed. *)

FileConditions ==
    { [palette |-> p, theme |-> t, mappings |-> m, roles |-> r] :
        p \in {"ok", "missing"}, t \in {"ok", "missing"},
        m \in FileStates, r \in FileStates }

FilesThemes ==
    { Theme({1}, [k \in {1} |-> [islist |-> TRUE, items |-> pair]]) :
        pair \in { <<Black, Black>>, <<CyanBare, CyanLower>>, <<FlagCode, CyanBare>> } }

InitFiles ==
    /\ theme \in FilesThemes
    /\ mappings = ConfigBoth.mappings
    /\ roles = ConfigBoth.roles
    /\ name_to_hex = Palette
    /\ last = NoRun
    /\ prev = NoPrev
    /\ value = <<>>
    /\ results = <<>>
    /\ overlaps = NotCalled
    /\ role_maps = NotCalled

NextFiles ==
    \E semantic \in BOOLEAN, dry_run \in BOOLEAN, files \in FileConditions :
        Main(semantic, dry_run, files)

SpecFiles == InitFiles /\ [][NextFiles]_vars

-----------------------------------------------------------------------------
(* normalize_color on its own: every token of at most MaxLen characters. *)

TokenChars == {" ", "\"", "#", "a", "A"}

RECURSIVE Tokens(_)
Tokens(n) ==
    IF n = 0 THEN {<<>>}
    ELSE LET shorter == Tokens(n - 1)
         IN  shorter \cup {Append(t, c) : t \in {u \in shorter : Len(u) = n - 1},
                                          c \in TokenChars}

\* Whole colours, longer than MaxLen: canonical, lowercase, quoted, padded.
ColourTokens ==
    { CyanGlow, CyanLower, CyanBare,
      <<"\"">> \o CyanLower \o <<"\"">>,
      <<" ">> \o CyanLower \o <<" ">>,
      <<"\"">> \o CyanLower \o <<" ", "\"">> }

InitNormalize ==
    /\ value \in Tokens(MaxLen) \cup ColourTokens
    /\ results = <<>>
    /\ theme = <<>>
    /\ mappings = <<>>
    /\ roles = <<>>
    /\ name_to_hex = Palette
    /\ last = NoRun
    /\ prev = NoPrev
    /\ overlaps = NotCalled
    /\ role_maps = NotCalled

SpecNormalize == InitNormalize /\ [][Normalize]_vars

-----------------------------------------------------------------------------
(* detect_overlaps on its own: one or two roles, at most MaxKeys keys each. *)

OverlapKeys == { <<"X">>, <<"x">>, <<"Y">> }

RECURSIVE KeyLists(_)
KeyLists(n) ==
    IF n = 0 THEN {<<>>}
    ELSE LET shorter == KeyLists(n - 1)
         IN  shorter \cup {Append(l, k) : l \in {u \in shorter : Len(u) = n - 1},
                                          k \in OverlapKeys}

OverlapMappings ==
    { << [role |-> "roleA", keys |-> ka] >> : ka \in KeyLists(MaxKeys) }
    \cup { << [role |-> "roleA", keys |-> ka], [role |-> "roleB", keys |-> kb] >> :
             ka \in KeyLists(MaxKeys), kb \in KeyLists(MaxKeys) }

InitOverlaps ==
    /\ mappings \in OverlapMappings
    /\ overlaps = NotCalled
    /\ theme = <<>>
    /\ roles = <<>>
    /\ name_to_hex = Palette
    /\ last = NoRun
    /\ prev = NoPrev
    /\ value = <<>>
    /\ results = <<>>
    /\ role_maps = NotCalled

SpecOverlaps == InitOverlaps /\ [][DetectOverlaps]_vars

-----------------------------------------------------------------------------
(* build_role_color_maps on its own. *)

RoleSpecs ==
    { RoleSpec(fg, bg) : fg \in {None, NameEmpty, NameCyan, NameNope},
                         bg \in {None, NameVoid, NameNope} }

Palettes ==
    { Palette,
      (NameCyan :> CyanGlow),
      (NameEmpty :> Black) @@ (NameVoid :> VoidBlack) }

InitRoles ==
    /\ roles \in [RoleNames -> RoleSpecs]
    /\ name_to_hex \in Palettes
    /\ role_maps = NotCalled
    /\ theme = <<>>
    /\ mappings = <<>>
    /\ last = NoRun
    /\ prev = NoPrev
    /\ value = <<>>
    /\ results = <<>>
    /\ overlaps = NotCalled

SpecRoles == InitRoles /\ [][BuildRoleColorMaps]_vars

-----------------------------------------------------------------------------
(* Vocabulary of the properties: the last run, the pairs of a theme, and    *)
(* what the configuration asks of a key, stated without the operators of    *)
(* the rewrite itself.                                                      *)

Returned == last.status = "returned"

NormalizeRan == Returned /\ last.rc = 0 /\ ~last.semantic

SemanticApplied ==
    Returned /\ last.rc = 0 /\ last.semantic /\ ~last.dry_run

SemanticDryRun ==
    Returned /\ last.rc = 0 /\ last.semantic /\ last.dry_run

\* <<section, entry>> of every 2-element pair of doc under a key other than GUID.
Pairs(doc) ==
    UNION { { <<s, i>> : i \in {j \in DOMAIN doc[s].entries :
                                  /\ doc[s].entries[j].islist
                                  /\ Len(doc[s].entries[j].items) = 2
                                  /\ doc[s].entries[j].key # GUID} } :
            s \in {t \in DOMAIN doc : doc[t].isdict} }

\* Slot 1 is the background (index 0), slot 2 the foreground (index 1).
Slots(doc) == Pairs(doc) \X {1, 2}

SlotOf(doc, sl) == doc[sl[1][1]].entries[sl[1][2]].items[sl[2]]

KeyOf(doc, pr) == doc[pr[1]].entries[pr[2]].key

IsFlagCode(v) == IsStr(v) /\ Len(v) = 11 /\ FlagMatch(v)

ColourString(v) == IsStr(v) /\ ~IsFlagCode(v)

\* A 6- or 8-digit hex colour, with or without its "#", in any letter case.
IsHexColour(v) ==
    /\ IsStr(v)
    /\ \/ HexFullmatch(v)
       \/ Len(v) \in {6, 8} /\ AllHex(v, 1, Len(v))

Canonical(v) == IF v[1] = "#" THEN upper(v) ELSE <<"#">> \o upper(v)

SameIgnoringCase(a, b) == upper(a) = upper(b)

\* The positions in the mappings of the roles that claim key, ignoring case.
Claiming(key) ==
    {i \in DOMAIN mappings :
        \E j \in DOMAIN mappings[i].keys : lower(mappings[i].keys[j]) = lower(key)}

FirstClaiming(key) == CHOOSE i \in Claiming(key) : \A j \in Claiming(key) : i <= j

\* The hex the role at position i of the mappings resolves for a slot, None
\* when roles.yaml or the palette gives none.
Resolved(i, slot) ==
    LET role == mappings[i].role
        name == IF role \in DOMAIN roles
                THEN IF slot = 1 THEN roles[role].background ELSE roles[role].foreground
                ELSE None
    IN  IF name \in DOMAIN name_to_hex THEN name_to_hex[name] ELSE None

\* The colour a slot of a claimed pair is to take: its first claiming role's.
Target(doc, sl) == Resolved(FirstClaiming(KeyOf(doc, sl[1])), sl[2])

ClaimedPairs(doc) == {pr \in Pairs(doc) : Claiming(KeyOf(doc, pr)) # {}}

ClaimedSlots(doc) == ClaimedPairs(doc) \X {1, 2}

ColourPair(doc, pr) ==
    ColourString(SlotOf(doc, <<pr, 1>>)) /\ ColourString(SlotOf(doc, <<pr, 2>>))

-----------------------------------------------------------------------------
(* C1: a pair slot holding a flag code (two hex digits, "x", eight hex      *)
(* digits) holds the same value after any run of either mode, whether it is *)
(* the background or the foreground slot.                                   *)
C1_FlagCodeNeverAltered ==
    Returned =>
        \A sl \in Slots(last.before) :
            IsFlagCode(SlotOf(last.before, sl)) =>
                SlotOf(theme, sl) = SlotOf(last.before, sl)

(* C2: after a normalize run every pair slot that held a 6- or 8-digit hex  *)
(* colour holds its canonical form (uppercase, "#"-prefixed), and the count *)
(* returned is the number of slots that were not canonical before.          *)
C2_NormalizeMakesCanonical ==
    NormalizeRan =>
        /\ \A sl \in Slots(last.before) :
               IsHexColour(SlotOf(last.before, sl)) =>
                   SlotOf(theme, sl) = Canonical(SlotOf(last.before, sl))
        /\ last.count =
               Cardinality({sl \in Slots(last.before) :
                   /\ IsHexColour(SlotOf(last.before, sl))
                   /\ SlotOf(last.before, sl) # Canonical(SlotOf(last.before, sl))})

\* The slots in which two documents of the same shape differ.
Differing(a, b) == {sl \in Slots(a) : SlotOf(a, sl) # SlotOf(b, sl)}

\* The same call without dry_run, on the theme the dry run loaded.
SameCallApplied ==
    apply_semantic(last.before, mappings,
                   build_role_color_maps(roles, name_to_hex).fg,
                   build_role_color_maps(roles, name_to_hex).bg, FALSE)

-----------------------------------------------------------------------------
\* What a slot of a claimed pair holds after a semantic apply that honours
\* case-insensitive equality: its target if it differed from it, else itself.
Settled(doc, sl) ==
    IF SameIgnoringCase(SlotOf(doc, sl), Target(doc, sl))
    THEN SlotOf(doc, sl)
    ELSE Target(doc, sl)

BothResolved(doc, pr) == Target(doc, <<pr, 1>>) # None /\ Target(doc, <<pr, 2>>) # None

\* The slots a semantic apply counts: string slots of claimed pairs that have
\* a target and differ from it ignoring case, a flag-coded background excepted.
Counted(doc) ==
    {sl \in ClaimedSlots(doc) :
        /\ Target(doc, sl) # None
        /\ IsStr(SlotOf(doc, sl))
        /\ ~(sl[2] = 1 /\ IsFlagCode(SlotOf(doc, sl)))
        /\ ~SameIgnoringCase(SlotOf(doc, sl), Target(doc, sl))}

(* C4 as stated: after a semantic apply every claimed pair of colour        *)
(* strings whose first claiming role resolves a foreground F and a          *)
(* background B is exactly [B, F], and the count returned is the number of  *)
(* slots that differed from their target ignoring case.                     *)
C4_PairBecomesTargets ==
    SemanticApplied =>
        /\ \A pr \in ClaimedPairs(last.before) :
               (ColourPair(last.before, pr) /\ BothResolved(last.before, pr)) =>
                   \A s \in {1, 2} :
                       SlotOf(theme, <<pr, s>>) = Target(last.before, <<pr, s>>)
        /\ last.count = Cardinality(Counted(last.before))

(* C4: after a semantic apply every slot of such a pair holds its target if *)
(* it differed from the target ignoring case and its own spelling if it did *)
(* not, and the count returned is the number of string slots that differed  *)
(* from their target ignoring case, flag-coded backgrounds excepted.        *)
C4_PairSettlesOnTargets ==
    SemanticApplied =>
        /\ \A pr \in ClaimedPairs(last.before) :
               (ColourPair(last.before, pr) /\ BothResolved(last.before, pr)) =>
                   \A s \in {1, 2} :
                       SlotOf(theme, <<pr, s>>) = Settled(last.before, <<pr, s>>)
        /\ last.count = Cardinality(Counted(last.before))

\* An apply that set one slot of a pair and kept the other, which spelt its
\* target in lowercase.
C4_Witness ==
    /\ SemanticApplied
    /\ last.count = 1
    /\ \E pr \in ClaimedPairs(last.before) :
           /\ ColourPair(last.before, pr) /\ BothResolved(last.before, pr)
           /\ SlotOf(theme, <<pr, 1>>) = Target(last.before, <<pr, 1>>)
           /\ SlotOf(last.before, <<pr, 1>>) # Target(last.before, <<pr, 1>>)
           /\ SlotOf(theme, <<pr, 2>>) = SlotOf(last.before, <<pr, 2>>)
           /\ SlotOf(theme, <<pr, 2>>) # Target(last.before, <<pr, 2>>)

-----------------------------------------------------------------------------
\* The lowercased keys of the mappings and the roles that list each.
LoweredKeys ==
    UNION { {lower(mappings[i].keys[j]) : j \in DOMAIN mappings[i].keys} :
            i \in DOMAIN mappings }

ClaimingRoles(lk) ==
    {mappings[i].role : i \in
        {h \in DOMAIN mappings :
            \E j \in DOMAIN mappings[h].keys : lower(mappings[h].keys[j]) = lk}}

Range(f) == {f[i] : i \in DOMAIN f}

(* C5: detect_overlaps returns exactly the lowercased keys claimed by more  *)
(* than one role, each with the roles claiming it; a key only one role      *)
(* lists, however often or in whatever casing, is not returned.             *)
C5_OnlySharedKeysReported ==
    overlaps.done =>
        /\ DOMAIN overlaps.index = {lk \in LoweredKeys : Cardinality(ClaimingRoles(lk)) > 1}
        /\ \A lk \in DOMAIN overlaps.index : Range(overlaps.index[lk]) = ClaimingRoles(lk)

-----------------------------------------------------------------------------
\* A role spec names a colour when the name is neither None nor empty.
Named(name) == name # None /\ name # <<>>

InPalette(name) == Named(name) /\ name \in DOMAIN name_to_hex

(* C6: build_role_color_maps returns for every roles and palette; a role is *)
(* in the foreground map exactly when it names a foreground colour that the *)
(* palette holds, mapped to the palette's hex, and in the background map    *)
(* exactly when it names a background colour the palette holds, whatever    *)
(* its foreground name resolves to.                                         *)
C6_MapsAreIndependent ==
    role_maps.done =>
        /\ DOMAIN role_maps.fg = {r \in DOMAIN roles : InPalette(roles[r].foreground)}
        /\ DOMAIN role_maps.bg = {r \in DOMAIN roles : InPalette(roles[r].background)}
        /\ \A r \in DOMAIN role_maps.fg : role_maps.fg[r] = name_to_hex[roles[r].foreground]
        /\ \A r \in DOMAIN role_maps.bg : role_maps.bg[r] = name_to_hex[roles[r].background]

\* A role whose foreground name is not in the palette is in the background
\* map, next to a role that is in the foreground map.
C6_Witness ==
    /\ role_maps.done
    /\ \E r \in DOMAIN roles :
           /\ Named(roles[r].foreground)
           /\ roles[r].foreground \notin DOMAIN name_to_hex
           /\ r \notin DOMAIN role_maps.fg
           /\ r \in DOMAIN role_maps.bg
    /\ role_maps.fg # <<>>

-----------------------------------------------------------------------------
\* A quoted literal "#..." whose content ends in whitespace without being
\* all whitespace: the quotes shield that whitespace from the first strip().
ShieldedSpace(v) ==
    LET t == strip(v, Whitespace)
    IN  /\ Len(t) >= 5
        /\ startswith(t, <<"\"", "#">>)
        /\ endswith(t, <<"\"">>)
        /\ t[Len(t) - 1] \in Whitespace
        /\ \E i \in 3..(Len(t) - 2) : t[i] \notin Whitespace

\* "#" and at least one uppercase hex digit after it.
CanonicalForm(v) ==
    /\ Len(v) >= 2
    /\ v[1] = "#"
    /\ \A i \in 2..Len(v) : v[i] \in HexDigits /\ UpperChar(v[i]) = v[i]

(* C7 as stated: normalize_color(normalize_color(s)) = normalize_color(s)   *)
(* for every token s of whitespace, quotes, "#" and hex characters.         *)
C7_NormalizeTwiceIsOnce ==
    Len(results) >= 2 => results[2] = results[1]

(* C7: normalize_color returns a canonical value unchanged, and normalizing *)
(* its result again changes nothing for every token but a quoted literal    *)
(* whose content ends in whitespace.                                        *)
C7_NormalizeSettles ==
    /\ (Len(results) >= 1 /\ CanonicalForm(value)) => results[1] = value
    /\ (Len(results) >= 2 /\ ~ShieldedSpace(value)) => results[2] = results[1]

\* A quoted lowercase colour, normalized twice.
C7_Witness ==
    /\ Len(results) >= 2
    /\ value = <<"\"">> \o CyanLower \o <<"\"">>
    /\ results[1] = CyanGlow
    /\ results[2] = CyanGlow

-----------------------------------------------------------------------------
\* A file the last run needed was not there.
RequiredFileMissing ==
    \/ last.files.palette = "missing"
    \/ last.files.theme = "missing"
    \/ /\ last.semantic
       /\ \/ last.files.mappings = "missing"
          \/ last.files.roles = "missing"

(* C8: when the palette, the theme or, under --semantic, the mappings or    *)
(* the roles file is missing, main returns 1 and leaves the theme file as   *)
(* it was; every other run that returns, returns 0.                         *)
C8_MissingFileReturnsOne ==
    last.status # "none" =>
        /\ RequiredFileMissing =>
               /\ Returned
               /\ last.rc = 1
               /\ theme = last.before
        /\ (Returned /\ ~RequiredFileMissing) => last.rc = 0

\* A --semantic run that found everything but roles.yaml, on a theme a
\* semantic apply changes.
C8_Witness ==
    /\ Returned
    /\ last.rc = 1
    /\ last.semantic /\ ~last.dry_run
    /\ last.files = [AllOk EXCEPT !.roles = "missing"]
    /\ theme = last.before
    /\ SameCallApplied.returns > 0

-----------------------------------------------------------------------------
(* C9: after a semantic apply every slot of a pair claimed by several roles *)
(* holds either what it held or the colour its first claiming role, in the  *)
(* mappings' order, resolves for it; it holds what it held when that role   *)
(* resolves none, whatever a later claiming role resolves.                  *)
C9_FirstMatchWins ==
    SemanticApplied =>
        \A sl \in ClaimedSlots(last.before) :
            /\ SlotOf(theme, sl) \in {SlotOf(last.before, sl), Target(last.before, sl)}
            /\ Target(last.before, sl) = None =>
                   SlotOf(theme, sl) = SlotOf(last.before, sl)

\* The first claiming role resolved a foreground only: the foreground was
\* set to it, and the background kept its colour although the second
\* claiming role resolves another one.
C9_Witness ==
    /\ SemanticApplied
    /\ \E pr \in ClaimedPairs(last.before) :
           LET key == KeyOf(last.before, pr)
           IN  /\ Cardinality(Claiming(key)) > 1
               /\ Target(last.before, <<pr, 1>>) = None
               /\ \E i \in Claiming(key) :
                      /\ Resolved(i, 1) # None
                      /\ ColourString(SlotOf(last.before, <<pr, 1>>))
                      /\ ~SameIgnoringCase(Resolved(i, 1), SlotOf(last.before, <<pr, 1>>))
               /\ SlotOf(theme, <<pr, 1>>) = SlotOf(last.before, <<pr, 1>>)
               /\ SlotOf(theme, <<pr, 2>>) = Target(last.before, <<pr, 2>>)
               /\ SlotOf(theme, <<pr, 2>>) # SlotOf(last.before, <<pr, 2>>)

-----------------------------------------------------------------------------
\* The last run repeated the mode of the run before it, a rewriting one.
Repeated == prev.mode = Mode(last) /\ Mode(last) \in {"normalize", "semantic"}

(* C10: a normalize run that follows a normalize run, and a semantic apply  *)
(* that follows a semantic apply, changes no slot of the theme and counts 0. *)
C10_SecondRunChangesNothing ==
    Repeated => (last.count = 0 /\ theme = last.before)

\* A second normalize run, on a theme holding a canonical colour that no
\* initial theme holds.
C10_Witness ==
    /\ Repeated
    /\ Mode(last) = "normalize"
    /\ last.count = 0
    /\ \E sl \in Slots(theme) : SlotOf(theme, sl) = CyanGlow

=============================================================================
